---- MODULE Spec2Model ----
(***************************************************************************)
(* The polls application: the Question / Choice entity store               *)
(* (polls/models.py), the methods of Question and the request handlers of  *)
(* polls/views.py.                                                         *)
(*                                                                         *)
(* polls/urls.py routes the index, detail and results pages to             *)
(* views.IndexView, views.DetailView and views.ResultsView, which          *)
(* polls/views.py does not define; the handlers modelled here are the      *)
(* functions index, detail, results and vote that polls/views.py defines.  *)
(*                                                                         *)
(* Time is counted in ticks; one day is TicksPerDay ticks.  A choice text  *)
(* is a sequence of letter codes (1 = "A", 2 = "B", 3 = "C"), compared     *)
(* lexicographically as the database compares strings.                     *)
(***************************************************************************)
EXTENDS Integers, Sequences, FiniteSets, TLC

VARIABLES now, questions, choices, nextQuestionId, nextChoiceId,
          request, response, returned

vars == <<now, questions, choices, nextQuestionId, nextChoiceId,
          request, response, returned>>

(* ------------------------------ bounds -------------------------------- *)

\* ticks in one day: the granularity of the model's clock
TicksPerDay == 1

\* the clock runs from 0 to MaxTime while questions are asked whether they
\* are recent
MaxTime == 2

\* the clock runs from 0 to MaxRequestTime while requests are served
MaxRequestTime == 1

\* number of Question rows ever inserted
MaxQuestions == 2

\* number of Choice rows ever inserted while requests are served
MaxChoices == 2

\* number of Choice rows ever inserted while the model methods are called
MaxSortedChoices == 3

(* ------------------------------ inputs -------------------------------- *)

QuestionTexts == {"Test past question?"}

ChoiceTexts == {<<1>>, <<2>>, <<3>>}

\* pub_date values around the clock's range, a day and a tick beyond each end
PubDates == (0 - TicksPerDay - 1)..(MaxTime + 1)

\* ids a URL can name: those of rows, and 0, which no row has
QuestionIds == 0..MaxQuestions

\* votes=... of choice_set.create while the model methods are called
VoteCounts == {1, 2}

\* votes=... of choice_set.create: a number, or left out
UseDefault == 0 - 1

(* ------------------------------ models.py ----------------------------- *)

\* Choice.votes = IntegerField(default=0)
DefaultVotes == 0

\* question.choice_set: the Choice rows whose foreign key is the question
choice_set(q) == {c \in DOMAIN choices : choices[c].question = q}

\* str < str
RECURSIVE TextLess(_, _)
TextLess(a, b) ==
    IF b = <<>> THEN FALSE
    ELSE IF a = <<>> THEN TRUE
    ELSE IF Head(a) # Head(b) THEN Head(a) < Head(b)
    ELSE TextLess(Tail(a), Tail(b))

\* one order_by field: is row c strictly before row d by it
FieldBefore(field, c, d) ==
    CASE field = "votes" -> choices[c].votes < choices[d].votes
      [] field = "-votes" -> choices[c].votes > choices[d].votes
      [] field = "choice_text" -> TextLess(choices[c].choice_text, choices[d].choice_text)
      [] field = "-choice_text" -> TextLess(choices[d].choice_text, choices[c].choice_text)

\* ORDER BY fields: the first field that tells the rows apart decides
RECURSIVE RowBefore(_, _, _)
RowBefore(fields, c, d) ==
    IF fields = <<>> THEN FALSE
    ELSE IF FieldBefore(Head(fields), c, d) THEN TRUE
    ELSE IF FieldBefore(Head(fields), d, c) THEN FALSE
    ELSE RowBefore(Tail(fields), c, d)

\* put row c into the ordered rows, after the rows that are not after it
RECURSIVE InsertRow(_, _, _)
InsertRow(fields, rows, c) ==
    IF rows = <<>> THEN <<c>>
    ELSE IF RowBefore(fields, c, Head(rows)) THEN <<c>> \o rows
    ELSE <<Head(rows)>> \o InsertRow(fields, Tail(rows), c)

\* QuerySet.order_by(*fields) over the rows in the order the table scan
\* yields them; rows equal on every field keep the scan's order
RECURSIVE order_by(_, _)
order_by(scan, fields) ==
    IF scan = <<>> THEN <<>>
    ELSE InsertRow(fields, order_by(SubSeq(scan, 1, Len(scan) - 1), fields),
                   scan[Len(scan)])

\* the orders in which a scan of the Choice table can yield its rows
RECURSIVE Scans(_)
Scans(S) ==
    IF S = {} THEN {<<>>}
    ELSE UNION {{<<c>> \o s : s \in Scans(S \ {c})} : c \in S}

\* question.choice_set as a QuerySet: the rows of the scan the question owns
choice_set_rows(q, scan) == SelectSeq(scan, LAMBDA c : choices[c].question = q)

sorted_choice_set_by_text(q, scan) ==
    order_by(choice_set_rows(q, scan), <<"choice_text">>)

sorted_choice_set_by_votes_ascending(q, scan) ==
    order_by(choice_set_rows(q, scan), <<"votes", "choice_text">>)

sorted_choice_set_by_votes(q, scan) ==
    order_by(choice_set_rows(q, scan), <<"-votes", "choice_text">>)

was_published_recently_no_upper_bound(q) ==
    now - TicksPerDay <= questions[q].pub_date

was_published_recently(q) ==
    /\ now - TicksPerDay <= questions[q].pub_date
    /\ questions[q].pub_date <= now

has_choice_set_of_any_question(q) == Cardinality(DOMAIN choices) > 0

\* bool(self.choice_set.all()): a QuerySet is true iff it has a row
has_choice_set(q) == Cardinality(choice_set(q)) > 0

\* Question.objects.create(question_text=..., pub_date=...)
Question_create(question_text, pub_date) ==
    [id |-> nextQuestionId,
     questions |-> [q \in DOMAIN questions \cup {nextQuestionId} |->
                      IF q = nextQuestionId
                      THEN [question_text |-> question_text, pub_date |-> pub_date]
                      ELSE questions[q]]]

\* question.choice_set.create(choice_text=...[, votes=...])
Choice_create(q, choice_text, v) ==
    [id |-> nextChoiceId,
     choices |-> [c \in DOMAIN choices \cup {nextChoiceId} |->
                    IF c = nextChoiceId
                    THEN [question |-> q, choice_text |-> choice_text,
                          votes |-> IF v = UseDefault THEN DefaultVotes ELSE v]
                    ELSE choices[c]]]

Question_delete_no_cascade(q) ==
    [questions |-> [p \in DOMAIN questions \ {q} |-> questions[p]],
     choices |-> choices]

\* question.delete(), with Choice.question = ForeignKey(on_delete=CASCADE)
Question_delete(q) ==
    [questions |-> [p \in DOMAIN questions \ {q} |-> questions[p]],
     choices |-> [c \in DOMAIN choices \ choice_set(q) |-> choices[c]]]

(* ------------------------------ views.py ------------------------------ *)

\* HttpResponse(content): status 200, no template rendered and so no
\* template context (context is <<>>; a rendered list would be <<list>>)
HttpResponse(content) ==
    [status_code |-> 200, content |-> content, context |-> <<>>]

\* "...{}...".format(question_id)
format(before, question_id, after) == <<before, ToString(question_id), after>>

\* a handler yields its response and the Choice table it leaves behind

index(req) ==
    [response |-> HttpResponse(<<"Hello World! You're at the Polls index.">>),
     choices |-> choices]

detail(req, question_id) ==
    [response |-> HttpResponse(format("You're looking at question ", question_id, ".")),
     choices |-> choices]

results(req, question_id) ==
    [response |-> HttpResponse(format("You're looking at the results of question ",
                                      question_id, ".")),
     choices |-> choices]

vote_taking_a_vote_away(req, question_id) ==
    [response |-> HttpResponse(format("You're voting on question ", question_id, ".")),
     choices |-> [c \in DOMAIN choices |->
                    IF c = req.choice
                    THEN [choices[c] EXCEPT !.votes = choices[c].votes - 1]
                    ELSE choices[c]]]

vote(req, question_id) ==
    [response |-> HttpResponse(format("You're voting on question ", question_id, ".")),
     choices |-> choices]

(* ------------------------------ state machine ------------------------- *)

Request(op, question_id, choice, arg) ==
    [op |-> op, question_id |-> question_id, choice |-> choice, arg |-> arg]

NoRequest == Request("none", 0, 0, 0)

NoResponse == [status_code |-> 0, content |-> <<>>, context |-> <<>>]

NoReturn == [flag |-> FALSE, rows |-> <<>>]

Init ==
    /\ now = 0
    /\ questions = <<>>
    /\ choices = <<>>
    /\ nextQuestionId = 1
    /\ nextChoiceId = 1
    /\ request = NoRequest
    /\ response = NoResponse
    /\ returned = NoReturn

\* two questions are in the store and the model methods are about to be called
InitChoices ==
    /\ now = 0
    /\ questions = [q \in 1..2 |-> [question_text |-> "Test past question?", pub_date |-> 0]]
    /\ choices = <<>>
    /\ nextQuestionId = 3
    /\ nextChoiceId = 1
    /\ request = NoRequest
    /\ response = NoResponse
    /\ returned = NoReturn

\* the clock advances
Tick ==
    /\ now < MaxTime
    /\ now' = now + 1
    /\ request' = NoRequest
    /\ response' = NoResponse
    /\ returned' = NoReturn
    /\ UNCHANGED <<questions, choices, nextQuestionId, nextChoiceId>>

CreateQuestion(question_text, pub_date) ==
    /\ nextQuestionId <= MaxQuestions
    /\ questions' = Question_create(question_text, pub_date).questions
    /\ nextQuestionId' = nextQuestionId + 1
    /\ request' = Request("create_question", nextQuestionId, 0, pub_date)
    /\ response' = NoResponse
    /\ returned' = NoReturn
    /\ UNCHANGED <<now, choices, nextChoiceId>>

CreateChoice(q, choice_text, v) ==
    /\ q \in DOMAIN questions
    /\ choices' = Choice_create(q, choice_text, v).choices
    /\ nextChoiceId' = nextChoiceId + 1
    /\ request' = Request("create_choice", q, nextChoiceId, v)
    /\ response' = NoResponse
    /\ returned' = NoReturn
    /\ UNCHANGED <<now, questions, nextQuestionId>>

DeleteQuestion(q) ==
    /\ q \in DOMAIN questions
    /\ questions' = Question_delete(q).questions
    /\ choices' = Question_delete(q).choices
    /\ request' = Request("delete_question", q, 0, 0)
    /\ response' = NoResponse
    /\ returned' = NoReturn
    /\ UNCHANGED <<now, nextQuestionId, nextChoiceId>>

\* a handler of views.py runs on a request and answers it
Handle(req, handled) ==
    /\ request' = req
    /\ response' = handled.response
    /\ choices' = handled.choices
    /\ returned' = NoReturn
    /\ UNCHANGED <<now, questions, nextQuestionId, nextChoiceId>>

IndexRequest ==
    LET req == Request("index", 0, 0, 0) IN Handle(req, index(req))

DetailRequest ==
    \E question_id \in QuestionIds :
        LET req == Request("detail", question_id, 0, 0) IN
        Handle(req, detail(req, question_id))

ResultsRequest ==
    \E question_id \in QuestionIds :
        LET req == Request("results", question_id, 0, 0) IN
        Handle(req, results(req, question_id))

\* POST /polls/<question_id>/vote/ with the form's choice=<id>
VoteRequest ==
    \E question_id \in QuestionIds, c \in 0..MaxChoices :
        LET req == Request("vote", question_id, c, 0) IN
        Handle(req, vote(req, question_id))

\* a model method is called on a question of the store
Call(op, q, flag, rows) ==
    /\ request' = Request(op, q, 0, 0)
    /\ returned' = [flag |-> flag, rows |-> rows]
    /\ response' = NoResponse
    /\ UNCHANGED <<now, questions, choices, nextQuestionId, nextChoiceId>>

CallWasPublishedRecently ==
    \E q \in DOMAIN questions :
        Call("was_published_recently", q, was_published_recently(q), <<>>)

CallHasChoiceSet ==
    \E q \in DOMAIN questions :
        Call("has_choice_set", q, has_choice_set(q), <<>>)

CallSortedChoiceSetByVotes ==
    \E q \in DOMAIN questions, scan \in Scans(DOMAIN choices) :
        Call("sorted_choice_set_by_votes", q, FALSE, sorted_choice_set_by_votes(q, scan))

\* the store is edited while requests are served
PassTime == now < MaxRequestTime /\ Tick

AddQuestion ==
    \E question_text \in QuestionTexts, pub_date \in 0..MaxRequestTime :
        CreateQuestion(question_text, pub_date)

AddChoice ==
    /\ nextChoiceId <= MaxChoices
    /\ \E q \in DOMAIN questions : CreateChoice(q, <<1>>, UseDefault)

RemoveQuestion == \E q \in DOMAIN questions : DeleteQuestion(q)

Next ==
    \/ PassTime
    \/ AddQuestion
    \/ AddChoice
    \/ RemoveQuestion
    \/ IndexRequest
    \/ DetailRequest
    \/ ResultsRequest
    \/ VoteRequest

Spec == Init /\ [][Next]_vars

\* questions of any pub_date are stored and asked whether they are recent
AddDatedQuestion ==
    \E question_text \in QuestionTexts, pub_date \in PubDates :
        CreateQuestion(question_text, pub_date)

NextRecent ==
    \/ Tick
    \/ AddDatedQuestion
    \/ CallWasPublishedRecently

SpecRecent == Init /\ [][NextRecent]_vars

\* choices of any text and vote count are stored and the choice sets are read
AddVotedChoice ==
    /\ nextChoiceId <= MaxSortedChoices
    /\ \E q \in DOMAIN questions, choice_text \in ChoiceTexts, v \in VoteCounts :
           CreateChoice(q, choice_text, v)

NextChoices ==
    \/ AddVotedChoice
    \/ CallHasChoiceSet
    \/ CallSortedChoiceSetByVotes

SpecChoices == InitChoices /\ [][NextChoices]_vars

(* ------------------------------ properties ---------------------------- *)

Range(seq) == {seq[i] : i \in 1..Len(seq)}

\* the letters a choice text is displayed with
Letters == <<"A", "B", "C">>

\* the page shows a choice text
ShowsChoiceText(content, choice_text) ==
    \A i \in 1..Len(choice_text) : Letters[choice_text[i]] \in Range(content)

\* C1: was_published_recently(Q) is true iff now - 1 day <= Q.pub_date <= now,
\* both ends included: the age now - pub_date is between 0 and one day; it is
\* false for a question of the future and for one older than a day.
C1_PublishedRecentlyIffWithinLastDay ==
    request.op = "was_published_recently" =>
        LET age == now - questions[request.question_id].pub_date IN
        /\ returned.flag <=> age \in 0..TicksPerDay
        /\ age < 0 => ~returned.flag
        /\ age > TicksPerDay => ~returned.flag

\* a question published exactly one day ago is reported recent, with a
\* question of the future in the store beside it
C1_Witness ==
    /\ request.op = "was_published_recently"
    /\ questions[request.question_id].pub_date = now - TicksPerDay
    /\ returned.flag
    /\ \E q \in DOMAIN questions : questions[q].pub_date > now

\* C2: a vote for a choice the question owns adds exactly 1 to that choice's
\* votes and leaves every other choice's votes as they were (so two votes for
\* one choice add 2).
C2_VoteAddsOneToTheChoiceOnly ==
    [][(/\ request'.op = "vote"
        /\ request'.choice \in choice_set(request'.question_id))
       => /\ DOMAIN choices' = DOMAIN choices
          /\ choices'[request'.choice].votes = choices[request'.choice].votes + 1
          /\ \A d \in DOMAIN choices \ {request'.choice} :
                 choices'[d].votes = choices[d].votes]_vars

\* C3: a vote whose choice the question does not own is answered with the
\* detail page of the question followed by an error message, and changes no
\* vote count.
C3_ForeignChoiceIsRejected ==
    [][(/\ request'.op = "vote"
        /\ request'.question_id \in DOMAIN questions
        /\ request'.choice \notin choice_set(request'.question_id))
       => LET page == detail(request', request'.question_id).response.content IN
          /\ response'.status_code = 200
          /\ Len(response'.content) > Len(page)
          /\ SubSeq(response'.content, 1, Len(page)) = page
          /\ choices' = choices]_vars

\* C4: detail and results answer 404 when no question has the id or the
\* question's pub_date is later than now, whatever choices it has.
C4_MissingOrFutureQuestionIsNotFound ==
    (/\ request.op \in {"detail", "results"}
     /\ \/ request.question_id \notin DOMAIN questions
        \/ questions[request.question_id].pub_date > now)
    => response.status_code = 404

\* C5: the index response carries a list of at most 5 questions, each with a
\* pub_date not in the future and at least one choice, the most recent first.
C5_IndexListsRecentQualifyingQuestions ==
    request.op = "index" =>
        /\ Len(response.context) = 1
        /\ LET list == response.context[1] IN
           /\ Len(list) <= 5
           /\ \A i \in 1..Len(list) :
                  /\ list[i] \in DOMAIN questions
                  /\ questions[list[i]].pub_date <= now
                  /\ choice_set(list[i]) # {}
           /\ \A i \in 1..(Len(list) - 1) :
                  questions[list[i]].pub_date >= questions[list[i + 1]].pub_date

\* C6: for a stored question whose pub_date is not in the future, detail and
\* results answer 200 and show the question's text (detail) or its choices'
\* texts (results) if it owns a choice, and answer 404 if it owns none.
C6_PastQuestionFoundIffItHasChoices ==
    (/\ request.op \in {"detail", "results"}
     /\ request.question_id \in DOMAIN questions
     /\ questions[request.question_id].pub_date <= now)
    => IF choice_set(request.question_id) # {}
       THEN /\ response.status_code = 200
            /\ request.op = "detail" =>
                   questions[request.question_id].question_text \in Range(response.content)
            /\ request.op = "results" =>
                   \A c \in choice_set(request.question_id) :
                       ShowsChoiceText(response.content, choices[c].choice_text)
       ELSE response.status_code = 404

\* C7: sorted_choice_set_by_votes yields all and only the question's choices,
\* each once, by votes descending and, among equal votes, by text ascending.
C7_SortedByVotesThenText ==
    request.op = "sorted_choice_set_by_votes" =>
        LET rows == returned.rows IN
        /\ Range(rows) = choice_set(request.question_id)
        /\ Len(rows) = Cardinality(choice_set(request.question_id))
        /\ \A i \in 1..(Len(rows) - 1) :
               \/ choices[rows[i]].votes > choices[rows[i + 1]].votes
               \/ /\ choices[rows[i]].votes = choices[rows[i + 1]].votes
                  /\ ~TextLess(choices[rows[i + 1]].choice_text, choices[rows[i]].choice_text)

\* the choices A:1, B:2, C:1 come out as B, A, C, with C inserted before A
C7_Witness ==
    /\ request.op = "sorted_choice_set_by_votes"
    /\ Len(returned.rows) = 3
    /\ [i \in 1..3 |-> choices[returned.rows[i]].choice_text] = <<<<2>>, <<1>>, <<3>>>>
    /\ [i \in 1..3 |-> choices[returned.rows[i]].votes] = <<2, 1, 1>>
    /\ returned.rows[2] > returned.rows[3]

\* C8: has_choice_set(Q) is true iff some Choice row references Q, whatever
\* choices other questions own.
C8_HasChoiceSetIffOwnsAChoice ==
    request.op = "has_choice_set" =>
        (returned.flag <=>
            \E c \in DOMAIN choices : choices[c].question = request.question_id)

\* a question without choices is told so while another question owns one
C8_Witness ==
    /\ request.op = "has_choice_set"
    /\ ~returned.flag
    /\ DOMAIN choices # {}

\* C9: no step lowers the votes of a choice that stays in the store, and a
\* choice inserted with the default has 0 votes.
C9_VotesNeverDecrease ==
    [][/\ \A c \in DOMAIN choices \cap DOMAIN choices' :
              choices'[c].votes >= choices[c].votes
       /\ \A c \in DOMAIN choices' \ DOMAIN choices :
              request'.arg = UseDefault => choices'[c].votes = 0]_vars

\* a vote request for a choice of the question has been handled
C9_Witness ==
    /\ request.op = "vote"
    /\ request.choice \in choice_set(request.question_id)
    /\ Cardinality(DOMAIN choices) > 1

\* C10: deleting a question removes exactly the choices it owns and leaves the
\* others as they were, and every choice references a stored question.
C10_DeleteCascadesToOwnedChoices ==
    [][/\ \A c \in DOMAIN choices' : choices'[c].question \in DOMAIN questions'
       /\ request'.op = "delete_question" =>
              /\ DOMAIN choices' = DOMAIN choices \ choice_set(request'.question_id)
              /\ \A c \in DOMAIN choices' : choices'[c] = choices[c]]_vars

\* a question was deleted with its choice and another question's choice remains
C10_Witness ==
    /\ request.op = "delete_question"
    /\ DOMAIN choices # {}
    /\ Cardinality(DOMAIN choices) < nextChoiceId - 1

====
